---- MODULE Spec2Model ----
(***************************************************************************)
(* The game API route of rkwai/day-one (src/src/app/api/game/route.ts):    *)
(* the in-memory session table, the POST handler with its suspension on    *)
(* the upstream call, getLLMResponse with its fallback, and updateState;   *)
(* and the page that calls it (src/src/app/page.tsx, and the later         *)
(* version of the page kept in route.ts from line 231 on).                 *)
(* A text is a sequence of one-character strings, so that trim,            *)
(* toLowerCase and the two regular expressions are computed character by   *)
(* character as the code computes them.                                    *)
(***************************************************************************)
EXTENDS Naturals, Sequences, FiniteSets, Bags, TLC

VARIABLES
    \* the server
    sessions,   \* the session table: session id -> GameState
    inflight,   \* per session id, the respond requests awaiting the upstream call
    pending,    \* per session id, the bag of the prompts of those requests
    upstream,   \* how the latest upstream call ended
    response,   \* the latest HTTP response of the server
    \* the page in the browser
    cookie,     \* the sessionId cookie
    gameState,  \* useState<GameState | null>: << >> for null, << state >> otherwise
    input,      \* useState(''): the text of the input field
    isLoading,  \* useState(false)
    error,      \* useState<string | null>: << >> for null, else the parts of the message
    fetching    \* the fetches the page has called and not yet seen settle

server == << sessions, inflight, pending, upstream, response >>

page == << cookie, gameState, input, isLoading, error, fetching >>

vars == << sessions, inflight, pending, upstream, response,
           cookie, gameState, input, isLoading, error, fetching >>

----------------------------------------------------------------------------
(* Characters and the string primitives of the JavaScript runtime.         *)

UpperChars ==
    << "A", "B", "C", "D", "E", "F", "G", "H", "I", "J", "K", "L", "M",
       "N", "O", "P", "Q", "R", "S", "T", "U", "V", "W", "X", "Y", "Z" >>

LowerChars ==
    << "a", "b", "c", "d", "e", "f", "g", "h", "i", "j", "k", "l", "m",
       "n", "o", "p", "q", "r", "s", "t", "u", "v", "w", "x", "y", "z" >>

DigitChars == { "0", "1", "2", "3", "4", "5", "6", "7", "8", "9" }

\* \s of the regular expressions, and the characters String.trim removes
WhiteSpace == { " ", "\t", "\n", "\r" }

\* \w of the regular expressions: [A-Za-z0-9_]
WordChars ==
    { UpperChars[i] : i \in DOMAIN UpperChars }
        \cup { LowerChars[i] : i \in DOMAIN LowerChars }
        \cup DigitChars \cup { "_" }

\* one character of String.prototype.toLowerCase
toLowerChar(c) ==
    IF \E i \in DOMAIN UpperChars : UpperChars[i] = c
    THEN LowerChars[CHOOSE i \in DOMAIN UpperChars : UpperChars[i] = c]
    ELSE c

\* String.prototype.toLowerCase
toLowerCase(s) == [i \in DOMAIN s |-> toLowerChar(s[i])]

\* String.prototype.trim: drop the leading and trailing white space
trim(s) ==
    LET kept == { i \in DOMAIN s : s[i] \notin WhiteSpace }
    IN  IF kept = {} THEN << >>
        ELSE LET first == CHOOSE i \in kept : \A j \in kept : i <= j
                 last  == CHOOSE i \in kept : \A j \in kept : j <= i
             IN  SubSeq(s, first, last)

\* Array.prototype.includes
includes(arr, x) == \E i \in DOMAIN arr : arr[i] = x

----------------------------------------------------------------------------
(* Regular-expression matching, as the engine runs the two patterns.       *)

\* a literal of a pattern with the i flag matches the text at position i
\* (lit is written in lower case)
MatchesLiteralAt(text, i, lit) ==
    /\ i + Len(lit) - 1 <= Len(text)
    /\ \A k \in DOMAIN lit : toLowerChar(text[i + k - 1]) = lit[k]

\* [\w\s]+ starting at position j: the position of the last character of
\* the longest run of word and space characters (j - 1 when the run is empty)
ClassRunEnd(text, j) ==
    LET stops == { k \in j..Len(text) : text[k] \notin WordChars \cup WhiteSpace }
    IN  IF stops = {} THEN Len(text)
        ELSE (CHOOSE k \in stops : \A m \in stops : k <= m) - 1

\* prefix ([\w\s]+) closer, tried at position i: the match record
\* [last, group], or NoMatch. The class excludes the closer, so the
\* greedy run is the only candidate for the group.
NoMatch == [last |-> 0, group |-> << >>]

GroupMatchAt(text, i, prefix, closer) ==
    LET j == i + Len(prefix)
        e == ClassRunEnd(text, j)
    IN  IF /\ MatchesLiteralAt(text, i, prefix)
           /\ e >= j
           /\ e + 1 <= Len(text)
           /\ text[e + 1] = closer
        THEN [last |-> e + 1, group |-> SubSeq(text, j, e)]
        ELSE NoMatch

----------------------------------------------------------------------------
(* The literals of locationRegex and itemRegex.                             *)

\* "you "
YouLit ==
    << "y", "o", "u", " " >>

\* " to *"
ToStarLit ==
    << " ", "t", "o", " ", "*" >>

\* "you find {"
YouFindLit ==
    << "y", "o", "u", " ", "f", "i", "n", "d", " ", "{" >>

\* "move"
VerbMove ==
    << "m", "o", "v", "e" >>

\* "arrive"
VerbArrive ==
    << "a", "r", "r", "i", "v", "e" >>

\* "travel"
VerbTravel ==
    << "t", "r", "a", "v", "e", "l" >>

\* "venture"
VerbVenture ==
    << "v", "e", "n", "t", "u", "r", "e" >>

\* "go"
VerbGo ==
    << "g", "o" >>

\* "enter"
VerbEnter ==
    << "e", "n", "t", "e", "r" >>

\* "reach"
VerbReach ==
    << "r", "e", "a", "c", "h" >>

\* "find yourself"
VerbFindYourself ==
    << "f", "i", "n", "d", " ", "y", "o", "u", "r", "s", "e", "l", "f" >>

\* "step"
VerbStep ==
    << "s", "t", "e", "p" >>

\* the alternation (?:move|arrive|travel|venture|go|enter|reach|find yourself|step)
LocationVerbs ==
    << VerbMove, VerbArrive, VerbTravel, VerbVenture, VerbGo, VerbEnter,
       VerbReach, VerbFindYourself, VerbStep >>

\* everything of locationRegex before its group, one literal per verb
LocationPrefixes ==
    { YouLit \o LocationVerbs[v] \o ToStarLit : v \in DOMAIN LocationVerbs }

\* locationRegex tried at position i
locationRegexAt(text, i) ==
    IF \E p \in LocationPrefixes : GroupMatchAt(text, i, p, "*") # NoMatch
    THEN GroupMatchAt(text, i,
             CHOOSE p \in LocationPrefixes : GroupMatchAt(text, i, p, "*") # NoMatch,
             "*")
    ELSE NoMatch

\* variant: the rightmost match
locationRegexExecLast(text) ==
    LET hits == { i \in DOMAIN text : locationRegexAt(text, i) # NoMatch }
    IN  IF hits = {} THEN NoMatch
        ELSE locationRegexAt(text, CHOOSE i \in hits : \A j \in hits : j <= i)

\* locationRegex.exec(text): the leftmost match (the pattern has no g flag)
locationRegexExec(text) ==
    LET hits == { i \in DOMAIN text : locationRegexAt(text, i) # NoMatch }
    IN  IF hits = {} THEN NoMatch
        ELSE locationRegexAt(text, CHOOSE i \in hits : \A j \in hits : i <= j)

\* itemRegex.exec(text) with the g flag: the leftmost match that starts at
\* or after lastIndex (a position, counted from 1)
itemRegexExec(text, lastIndex) ==
    LET hits == { i \in lastIndex..Len(text) :
                      GroupMatchAt(text, i, YouFindLit, "}") # NoMatch }
    IN  IF hits = {} THEN NoMatch
        ELSE GroupMatchAt(text, CHOOSE i \in hits : \A j \in hits : i <= j,
                          YouFindLit, "}")

----------------------------------------------------------------------------
(* updateState                                                              *)

\* the capacity of recentEvents
RecentEventsCap == 5

\* the location a match sets: match[1].toLowerCase().trim()
normalizeLocation(group) == trim(toLowerCase(group))

\* variant: the item is trimmed and its case is kept
normalizeItemDropCase(group) == trim(group)

\* the item a match names: itemMatch[1].toLowerCase().trim()
normalizeItem(group) == trim(toLowerCase(group))

\* variant: the item is pushed without the includes check
addItemUnchecked(inventory, item) == Append(inventory, item)

\* if (!state.inventory.includes(item)) state.inventory.push(item)
addItem(inventory, item) ==
    IF includes(inventory, item) THEN inventory ELSE Append(inventory, item)

\* the while loop over itemRegex.exec, from lastIndex on: the groups of
\* the matches, in the order the loop meets them
RECURSIVE itemMatches(_, _)
itemMatches(text, lastIndex) ==
    LET itemMatch == itemRegexExec(text, lastIndex)
    IN  IF itemMatch = NoMatch THEN << >>
        ELSE << itemMatch.group >> \o itemMatches(text, itemMatch.last + 1)

\* the body of the loop, run on each match in turn
RECURSIVE pushItems(_, _)
pushItems(inventory, groups) ==
    IF groups = << >> THEN inventory
    ELSE pushItems(
             IF Head(groups) # << >>
             THEN addItem(inventory, normalizeItem(Head(groups)))
             ELSE inventory,
             Tail(groups))

\* variant: the oldest event is shifted out only when more than five are held
pushRecentEventLate(recentEvents, event) ==
    Append(IF Len(recentEvents) > RecentEventsCap
           THEN Tail(recentEvents) ELSE recentEvents,
           event)

\* variant: the event is pushed and nothing is shifted out
pushRecentEventNoShift(recentEvents, event) == Append(recentEvents, event)

\* shift the oldest event out when five are held, then push
pushRecentEvent(recentEvents, event) ==
    Append(IF Len(recentEvents) >= RecentEventsCap
           THEN Tail(recentEvents) ELSE recentEvents,
           event)

----------------------------------------------------------------------------
(* Texts: the seed line, the canned fallback responses and the contents    *)
(* the upstream service is taken to reply with.                            *)

\* "You arrived in a quiet village."
SeedLine ==
    << "Y", "o", "u", " ", "a", "r", "r", "i", "v", "e", "d", " ", "i", "n",
       " ", "a", " ", "q", "u", "i", "e", "t", " ", "v", "i", "l", "l", "a",
       "g", "e", "." >>

\* "village"
Village ==
    << "v", "i", "l", "l", "a", "g", "e" >>

\* "The village square bustles with activity."
Fallback0 ==
    << "T", "h", "e", " ", "v", "i", "l", "l", "a", "g", "e", " ", "s", "q",
       "u", "a", "r", "e", " ", "b", "u", "s", "t", "l", "e", "s", " ", "w",
       "i", "t", "h", " ", "a", "c", "t", "i", "v", "i", "t", "y", "." >>

\* "You move to *forest path*. Sunlight filters through the dense canopy."
Fallback1 ==
    << "Y", "o", "u", " ", "m", "o", "v", "e", " ", "t", "o", " ", "*", "f",
       "o", "r", "e", "s", "t", " ", "p", "a", "t", "h", "*", ".", " ", "S",
       "u", "n", "l", "i", "g", "h", "t", " ", "f", "i", "l", "t", "e", "r",
       "s", " ", "t", "h", "r", "o", "u", "g", "h", " ", "t", "h", "e", " ",
       "d", "e", "n", "s", "e", " ", "c", "a", "n", "o", "p", "y", "." >>

\* "You find {rusty iron key} and {pouch of gold coins}."
Fallback2 ==
    << "Y", "o", "u", " ", "f", "i", "n", "d", " ", "{", "r", "u", "s", "t",
       "y", " ", "i", "r", "o", "n", " ", "k", "e", "y", "}", " ", "a", "n",
       "d", " ", "{", "p", "o", "u", "c", "h", " ", "o", "f", " ", "g", "o",
       "l", "d", " ", "c", "o", "i", "n", "s", "}", "." >>

\* "As twilight descends, you spot a faint amber glow."
Fallback3 ==
    << "A", "s", " ", "t", "w", "i", "l", "i", "g", "h", "t", " ", "d", "e",
       "s", "c", "e", "n", "d", "s", ",", " ", "y", "o", "u", " ", "s", "p",
       "o", "t", " ", "a", " ", "f", "a", "i", "n", "t", " ", "a", "m", "b",
       "e", "r", " ", "g", "l", "o", "w", "." >>

\* "The village elder approaches, leaning on a gnarled wooden staff."
Fallback4 ==
    << "T", "h", "e", " ", "v", "i", "l", "l", "a", "g", "e", " ", "e", "l",
       "d", "e", "r", " ", "a", "p", "p", "r", "o", "a", "c", "h", "e", "s",
       ",", " ", "l", "e", "a", "n", "i", "n", "g", " ", "o", "n", " ", "a",
       " ", "g", "n", "a", "r", "l", "e", "d", " ", "w", "o", "o", "d", "e",
       "n", " ", "s", "t", "a", "f", "f", "." >>

\* "  You move to *Dark Cave*. "
MoveDarkCave ==
    << " ", " ", "Y", "o", "u", " ", "m", "o", "v", "e", " ", "t", "o", " ",
       "*", "D", "a", "r", "k", " ", "C", "a", "v", "e", "*", ".", " " >>

\* "You enter *Dark Cave*."
EnterDarkCave ==
    << "Y", "o", "u", " ", "e", "n", "t", "e", "r", " ", "*", "D", "a", "r",
       "k", " ", "C", "a", "v", "e", "*", "." >>

\* "Some text {iron key} more text"
SomeIronKey ==
    << "S", "o", "m", "e", " ", "t", "e", "x", "t", " ", "{", "i", "r", "o",
       "n", " ", "k", "e", "y", "}", " ", "m", "o", "r", "e", " ", "t", "e",
       "x", "t" >>

\* "You find {Iron Key}. You find { iron key }."
FindTwice ==
    << "Y", "o", "u", " ", "f", "i", "n", "d", " ", "{", "I", "r", "o", "n",
       " ", "K", "e", "y", "}", ".", " ", "Y", "o", "u", " ", "f", "i", "n",
       "d", " ", "{", " ", "i", "r", "o", "n", " ", "k", "e", "y", " ", "}",
       "." >>

\* "You find {Iron Key} then you find {Map}."
FindKeyMap ==
    << "Y", "o", "u", " ", "f", "i", "n", "d", " ", "{", "I", "r", "o", "n",
       " ", "K", "e", "y", "}", " ", "t", "h", "e", "n", " ", "y", "o", "u",
       " ", "f", "i", "n", "d", " ", "{", "M", "a", "p", "}", "." >>

\* "You move to * *."
MoveBlank ==
    << "Y", "o", "u", " ", "m", "o", "v", "e", " ", "t", "o", " ", "*", " ",
       "*", "." >>

\* "{"location": "Forest", "inventory": ["Sword"]}"
JsonForestSword ==
    << "{", "\"", "l", "o", "c", "a", "t", "i", "o", "n", "\"", ":", " ", "\"",
       "F", "o", "r", "e", "s", "t", "\"", ",", " ", "\"", "i", "n", "v", "e",
       "n", "t", "o", "r", "y", "\"", ":", " ", "[", "\"", "S", "w", "o", "r",
       "d", "\"", "]", "}" >>

\* "You go to *Inn*. You go to *Bog*."
TwoMoves ==
    << "Y", "o", "u", " ", "g", "o", " ", "t", "o", " ", "*", "I", "n", "n",
       "*", ".", " ", "Y", "o", "u", " ", "g", "o", " ", "t", "o", " ", "*",
       "B", "o", "g", "*", "." >>

\* "  "
Blank ==
    << " ", " " >>

\* "{"narrative": "Hi"}"
JsonNarrative ==
    << "{", "\"", "n", "a", "r", "r", "a", "t", "i", "v", "e", "\"", ":", " ",
       "\"", "H", "i", "\"", "}" >>

\* getFallbackResponse's table. Each entry is the response's first
\* sentences, which hold all of its markers; the prose after them has no
\* asterisk and no brace and is cut.
FallbackResponses ==
    << Fallback0, Fallback1, Fallback2, Fallback3, Fallback4 >>

\* message contents the upstream service replies with
UpstreamContents ==
    { MoveDarkCave, EnterDarkCave, SomeIronKey, FindTwice, FindKeyMap,
      MoveBlank, JsonForestSword, JsonNarrative, TwoMoves, Blank }

\* what the player types
Look == << "l", "o", "o", "k" >>

\* the contents of the runs about items
ItemContents == { FindTwice, FindKeyMap, SomeIronKey, MoveDarkCave }

\* the contents of the long runs
LongContents == { MoveDarkCave, FindTwice }

----------------------------------------------------------------------------
(* Bounds                                                                   *)

\* session ids uuidv4 can draw
MaxSessions == 2

\* respond requests accepted in a run of Spec
MaxResponds == 1

\* respond requests accepted in a run of SpecItems
MaxItemResponds == 2

\* respond requests accepted in a run of SpecLong
MaxLongResponds == 5

\* new games accepted in a run of SpecLong
MaxLongGames == 1

SessionIds == 1..MaxSessions

\* a request without a sessionId cookie
NoCookie == 0

----------------------------------------------------------------------------
(* getLLMResponse                                                           *)

\* what the call to the upstream service can come to: no API key, fetch or
\* json() throwing, a status that is not OK, a body without choices, or a
\* body with a message content. process.env is read on every call, so
\* the key is taken to be present or absent call by call.
UpstreamOutcomes(contents) ==
    [kind : {"nokey", "throws", "notok", "nochoices"}, content : {<< >>}]
        \cup [kind : {"content"}, content : contents]

\* data.choices && data.choices[0]?.message?.content?.trim()
responseText(outcome) ==
    IF outcome.kind = "content" THEN trim(outcome.content) ELSE << >>

\* how the call ended: with a reply, or in one of the failures
UpstreamResult(outcome) ==
    IF outcome.kind \in {"nokey", "throws", "notok"} THEN outcome.kind
    ELSE IF responseText(outcome) = << >> THEN "empty"
    ELSE "replied"

UpstreamFailures == {"nokey", "throws", "notok", "empty"}

\* getFallbackResponse(): any entry of the table (Math.random)
getFallbackResponse == { FallbackResponses[i] : i \in DOMAIN FallbackResponses }

\* getLLMResponse(prompt): the values the call can return on an outcome
getLLMResponse(outcome) ==
    IF UpstreamResult(outcome) = "replied" THEN { responseText(outcome) }
    ELSE getFallbackResponse

\* every text getLLMResponse returns in a run
ReplyTexts ==
    UNION { getLLMResponse(o) : o \in UpstreamOutcomes(UpstreamContents) }

----------------------------------------------------------------------------
(* updateState on a reply                                                   *)

\* the two scans of each reply text, computed once per text
LocationMatchOf == [t \in ReplyTexts |-> locationRegexExec(t)]

ItemGroupsOf == [t \in ReplyTexts |-> itemMatches(t, 1)]

\* variant: any text between two asterisks is a location
locationMatchBare(text) ==
    LET hits == { i \in DOMAIN text :
                      GroupMatchAt(text, i, << "*" >>, "*") # NoMatch }
    IN  IF hits = {} THEN NoMatch
        ELSE GroupMatchAt(text, CHOOSE i \in hits : \A j \in hits : i <= j,
                          << "*" >>, "*")

\* locationRegex.exec(formattedResponse)
locationMatch(text) ==
    IF text \in ReplyTexts THEN LocationMatchOf[text] ELSE locationRegexExec(text)

\* the groups the item loop meets in formattedResponse
itemGroups(text) ==
    IF text \in ReplyTexts THEN ItemGroupsOf[text] ELSE itemMatches(text, 1)

\* updateState(state, response): the state as the call leaves it
updateState(state, llmResponse) ==
    LET formattedResponse == trim(llmResponse)
        match == locationMatch(formattedResponse)
    IN  [ location     |-> IF match # NoMatch /\ match.group # << >>
                           THEN normalizeLocation(match.group)
                           ELSE state.location,
          inventory    |-> pushItems(state.inventory, itemGroups(formattedResponse)),
          recentEvents |-> pushRecentEvent(state.recentEvents, formattedResponse),
          story        |-> state.story ]

----------------------------------------------------------------------------
(* The session table and the POST handler.                                  *)

\* variant: the seed line is not put into recentEvents
initialStateNoSeedEvent ==
    [ location     |-> Village,
      inventory    |-> << >>,
      recentEvents |-> << >>,
      story        |-> << SeedLine >> ]

\* initialState of a new game
initialState ==
    [ location     |-> Village,
      inventory    |-> << >>,
      recentEvents |-> << SeedLine >>,
      story        |-> << SeedLine >> ]

\* uuidv4(): an id no session has (sessions holds the ids in use)
FreshIds == SessionIds \ DOMAIN sessions

\* variant: every session shares the one state object
mutateAllSessions(table, sessionId, state) ==
    [id \in DOMAIN table |-> state]

\* the table after the object of one session is mutated in place
mutateSession(table, sessionId, state) ==
    [table EXCEPT ![sessionId] = state]

\* variant: the reply is not pushed to the story
applyReplyStoryKept(state, llmOutput) == updateState(state, llmOutput)

\* updateState(state, llmOutput); state.story.push(llmOutput)
applyReply(state, llmOutput) ==
    LET updated == updateState(state, llmOutput)
    IN  [updated EXCEPT !.story = Append(updated.story, llmOutput)]

\* respond requests accepted so far: the replies recorded and those awaited
RECURSIVE RespondsBegun(_)
RespondsBegun(ids) ==
    IF ids = {} THEN 0
    ELSE LET id == CHOOSE x \in ids : TRUE
         IN  (IF id \in DOMAIN sessions
              THEN Len(sessions[id].story) - 1 ELSE 0)
             + inflight[id] + RespondsBegun(ids \ {id})

\* buildPrompt(state, input): what of the state and the request the prompt
\* holds
buildPrompt(state, playerInput) ==
    [ location     |-> state.location,
      inventory    |-> state.inventory,
      recentEvents |-> SubSeq(state.recentEvents,
                              IF Len(state.recentEvents) > 2
                              THEN Len(state.recentEvents) - 1 ELSE 1,
                              Len(state.recentEvents)),
      playerInput  |-> playerInput ]

\* variant: the handler carries the location and the inventory it read
\* before the await over the await
awaitedStateCopied(table, sessionId, prompt) ==
    [table[sessionId] EXCEPT !.location = prompt.location,
                             !.inventory = prompt.inventory]

\* the state the handler holds after the await: const state =
\* sessions[sessionId] is a reference, so it is the object as it is now
awaitedState(table, sessionId, prompt) == table[sessionId]

\* the server before any request; no page is open
Init ==
    /\ sessions = [id \in {} |-> initialState]
    /\ inflight = [id \in SessionIds |-> 0]
    /\ pending = [id \in SessionIds |-> EmptyBag]
    /\ upstream = "idle"
    /\ response = [status |-> 0, error |-> ""]
    /\ cookie = NoCookie
    /\ gameState = << >>
    /\ input = << >>
    /\ isLoading = FALSE
    /\ error = << >>
    /\ fetching = << >>

\* request.json() throws: the catch answers 500
PostBadBody ==
    /\ response' = [status |-> 500, error |-> "Server error"]
    /\ UNCHANGED << sessions, inflight, pending, upstream >>

\* action === 'new': a session with the initial state under a fresh id
PostNew ==
    \E sessionId \in FreshIds :
        /\ sessions' = sessions @@ (sessionId :> initialState)
        /\ response' = [status |-> 200, error |-> ""]
        /\ UNCHANGED << inflight, pending, upstream >>

\* variant: a session is created for the unknown id before the 400
PostNoSessionCreates(sent) ==
    /\ sent \in SessionIds \ DOMAIN sessions
    /\ sessions' = sessions @@ (sent :> initialState)
    /\ response' = [status |-> 400, error |-> "No active session"]
    /\ UNCHANGED << inflight, pending, upstream >>

\* no cookie, or a cookie naming no session: 400
PostNoSession(sent) ==
    /\ sent = NoCookie \/ sent \notin DOMAIN sessions
    /\ response' = [status |-> 400, error |-> "No active session"]
    /\ UNCHANGED << sessions, inflight, pending, upstream >>

\* a session, and an action that is neither 'new' nor 'respond': 400
PostInvalidAction(sessionId) ==
    /\ sessionId \in DOMAIN sessions
    /\ response' = [status |-> 400, error |-> "Invalid action"]
    /\ UNCHANGED << sessions, inflight, pending, upstream >>

\* action === 'respond', up to the await of getLLMResponse
PostRespondBegin(sessionId, playerInput, limit) ==
    /\ sessionId \in DOMAIN sessions
    /\ RespondsBegun(SessionIds) < limit
    /\ inflight' = [inflight EXCEPT ![sessionId] = @ + 1]
    /\ pending' = [pending EXCEPT ![sessionId] =
                       @ (+) SetToBag({buildPrompt(sessions[sessionId], playerInput)})]
    /\ UNCHANGED << sessions, upstream, response >>

\* action === 'respond', from the await on: the reply is applied to the
\* state object read before the await and the state is answered
PostRespondEnd(sessionId, outcome, llmOutput) ==
    /\ inflight[sessionId] > 0
    /\ inflight' = [inflight EXCEPT ![sessionId] = @ - 1]
    /\ \E prompt \in BagToSet(pending[sessionId]) :
           /\ pending' = [pending EXCEPT ![sessionId] = @ (-) SetToBag({prompt})]
           /\ sessions' = mutateSession(sessions, sessionId,
                              applyReply(awaitedState(sessions, sessionId, prompt),
                                         llmOutput))
    /\ upstream' = UpstreamResult(outcome)
    /\ response' = [status |-> 200, error |-> ""]

\* the requests the server takes, with the outcomes the upstream call can
\* have and the numbers of respond requests and of new games a run accepts
Requests(outcomes, limit, games) ==
    \/ PostBadBody /\ UNCHANGED page
    \/ Cardinality(DOMAIN sessions) < games /\ PostNew /\ UNCHANGED page
    \/ \E sent \in SessionIds \cup {NoCookie} :
           PostNoSession(sent) /\ UNCHANGED page
    \/ \E sessionId \in SessionIds :
           PostInvalidAction(sessionId) /\ UNCHANGED page
    \/ \E sessionId \in SessionIds :
           PostRespondBegin(sessionId, Look, limit) /\ UNCHANGED page
    \/ \E sessionId \in SessionIds, outcome \in outcomes :
           \E llmOutput \in getLLMResponse(outcome) :
               PostRespondEnd(sessionId, outcome, llmOutput) /\ UNCHANGED page

\* every outcome of the upstream call
Next == Requests(UpstreamOutcomes(UpstreamContents), MaxResponds, MaxSessions)

Spec == Init /\ [][Next]_vars

\* the upstream service answers, with replies that name items
NextItems ==
    Requests([kind : {"content"}, content : ItemContents], MaxItemResponds,
             MaxSessions)

SpecItems == Init /\ [][NextItems]_vars

\* the upstream service answers, in runs long enough to fill recentEvents
NextLong ==
    Requests([kind : {"content"}, content : LongContents], MaxLongResponds,
             MaxLongGames)

SpecLong == Init /\ [][NextLong]_vars

\* ---------------------------------------------------------------------
\* The page: the Home component of src/app/page.tsx, and its later
\* variant with the retry branch
\* ---------------------------------------------------------------------

MaxPageResponds == 2

\* the replies of the upstream service while a page is open
PageContents == { MoveDarkCave, SomeIronKey }

\* what the player types
PageInputs == { Look, Blank }

\* `> ${input}`
PlayerLine(text) == << ">", " " >> \o text

\* the React state of the mounted component and the fetches it awaits
Page ==
    [ gameState |-> gameState,
      input     |-> input,
      isLoading |-> isLoading,
      error     |-> error,
      fetching  |-> fetching ]

\* the state setters' values become the next render
Render(p) ==
    /\ gameState' = p.gameState
    /\ input' = p.input
    /\ isLoading' = p.isLoading
    /\ error' = p.error
    /\ fetching' = p.fetching

\* the fetch a handler has called and not yet seen settle
Fetch(action, text, stage) ==
    [ action |-> action, input |-> text, stage |-> stage ]

\* the fetches of the page but the i-th
Settled(fetches, i) ==
    SubSeq(fetches, 1, i - 1) \o SubSeq(fetches, i + 1, Len(fetches))

\* the respond requests of the page the server is working on
Awaiting(fetches) ==
    Len(SelectSeq(fetches, LAMBDA f : f.action = "respond" /\ f.stage = "awaiting"))

\* the respond requests of the page not yet at the server
Sent(fetches) ==
    Len(SelectSeq(fetches, LAMBDA f : f.action = "respond" /\ f.stage = "sent"))

\* the form is rendered unless the loading screen is: isLoading && !gameState
formRendered(p) == ~(p.isLoading /\ p.gameState = << >>)

\* <Input disabled={isLoading}>
inputDisabled(p) == p.isLoading

\* variant: the button is never disabled
submitNeverDisabled(p) == FALSE

\* <Button type="submit" disabled={isLoading}>
submitDisabled(p) == p.isLoading

\* handleSubmit up to its await of fetch
handleSubmit(p) ==
    IF trim(p.input) = << >> THEN p
    ELSE [p EXCEPT
            !.isLoading = TRUE,
            !.error = << >>,
            !.gameState =
                IF p.gameState = << >> THEN << >>
                ELSE << [p.gameState[1] EXCEPT
                           !.story = Append(@, PlayerLine(p.input))] >>,
            !.fetching = Append(@, Fetch("respond", p.input, "sent"))]

\* handleKeyPress(e)
handleKeyPress(p, key) ==
    IF key = "Enter" /\ ~p.isLoading THEN handleSubmit(p) ELSE p

\* Enter in the text field of a form submits the form through its submit
\* button, unless that button is disabled: onSubmit={handleSubmit}
implicitSubmission(p) ==
    IF submitDisabled(p) THEN p ELSE handleSubmit(p)

\* handleSubmit from a response that is ok: the state of the response
\* replaces gameState, the input is cleared
handleSubmitResolved(p, state) ==
    [p EXCEPT !.gameState = << state >>,
              !.input = << >>,
              !.isLoading = FALSE]

\* handleSubmit from a response that is not ok: both throws end in the
\* catch (parseError), whose message the outer catch shows
handleSubmitRejected(p, status, body) ==
    [p EXCEPT !.error = << "Failed to process response: ", body.error >>,
              !.isLoading = FALSE]

\* handleSubmit of the later variant from a response that is not ok: the
\* throw of either branch is caught by catch (parseError), which clears
\* the input after the branch has set it
handleSubmitRejectedRetry(p, status, body) ==
    LET retry == status = 503 /\ body.retryInput # << >>
        inBranch ==
            IF retry
            THEN [p EXCEPT
                    !.gameState =
                        IF p.gameState = << >> THEN << >>
                        ELSE << [p.gameState[1] EXCEPT
                                   !.story = IF @ = << >> THEN << >>
                                             ELSE SubSeq(@, 1, Len(@) - 1)] >>,
                    !.input = body.retryInput]
            ELSE [p EXCEPT !.input = << >>]
        inCatch == [inBranch EXCEPT !.input = << >>]
    IN  [inCatch EXCEPT
            !.error = << "Failed to process response: ", body.error >>,
            !.isLoading = FALSE]

\* the handler of a response that is not ok, of either variant
Rejected(variant, p, status, body) ==
    IF variant = "retry" THEN handleSubmitRejectedRetry(p, status, body)
    ELSE handleSubmitRejected(p, status, body)

\* variant: the catch without the finally, isLoading is not reset
handleSubmitFailedStillLoading(p) ==
    [p EXCEPT !.error = << "Failed to fetch" >>]

\* fetch itself rejects: the outer catch shows the message, the finally
\* resets isLoading
handleSubmitFailed(p) ==
    [p EXCEPT !.error = << "Failed to fetch" >>, !.isLoading = FALSE]

\* the respond requests begun, at the server or on their way to it
RespondsStarted == RespondsBegun(SessionIds) + Sent(fetching)

\* the lines of the player in the story the page shows
PlayerLines ==
    IF gameState = << >> THEN 0
    ELSE Len(SelectSeq(gameState[1].story, LAMBDA line : Head(line) = ">"))

\* the player goes on submitting
Submittable(limit) == RespondsStarted < limit /\ PlayerLines < limit

\* the page is loaded or reloaded: the component mounts with its initial
\* state and the effect calls startGame, up to its await of fetch
PageLoad ==
    /\ Render([ gameState |-> << >>,
                input     |-> << >>,
                isLoading |-> TRUE,
                error     |-> << >>,
                fetching  |-> << Fetch("new", << >>, "sent") >> ])
    /\ UNCHANGED << server, cookie >>

\* startGame from the response of 'new': the cookie of the new session
\* is set and its state shown
StartGameEnd(games) ==
    \E i \in DOMAIN fetching :
        /\ fetching[i].action = "new"
        /\ Cardinality(DOMAIN sessions) < games
        /\ PostNew
        /\ cookie' = CHOOSE id \in DOMAIN sessions' : id \notin DOMAIN sessions
        /\ Render([Page EXCEPT !.gameState = << sessions'[cookie'] >>,
                               !.isLoading = FALSE,
                               !.fetching = Settled(@, i)])

\* startGame from a fetch that rejects
StartGameFail ==
    \E i \in DOMAIN fetching :
        /\ fetching[i].action = "new"
        /\ Render([Page EXCEPT
                     !.error = << "Failed to start the game. Please refresh and try again." >>,
                     !.isLoading = FALSE,
                     !.fetching = Settled(@, i)])
        /\ UNCHANGED << server, cookie >>

\* onChange={(e) => setInput(e.target.value)}
TypeInput(text) ==
    /\ formRendered(Page)
    /\ ~inputDisabled(Page)
    /\ input' = text
    /\ UNCHANGED << server, cookie, gameState, isLoading, error, fetching >>

\* the player presses Enter in the input: the keydown listener runs and
\* its state updates are rendered, then the browser submits the form; a
\* disabled input takes no key
PressEnter(limit) ==
    /\ formRendered(Page)
    /\ Submittable(limit)
    /\ Render(IF inputDisabled(Page) THEN Page
              ELSE implicitSubmission(handleKeyPress(Page, "Enter")))
    /\ UNCHANGED << server, cookie >>

\* the player clicks the button; a disabled button submits nothing
ClickSubmit(limit) ==
    /\ formRendered(Page)
    /\ Submittable(limit)
    /\ Render(IF submitDisabled(Page) THEN Page ELSE handleSubmit(Page))
    /\ UNCHANGED << server, cookie >>

\* a respond request of the page reaches the server: it is rejected for
\* its cookie, or runs up to the await of getLLMResponse
SubmitArrives(variant, limit) ==
    \E i \in DOMAIN fetching :
        /\ fetching[i].action = "respond"
        /\ fetching[i].stage = "sent"
        /\ \/ /\ PostNoSession(cookie)
              /\ Render(Rejected(variant,
                                 [Page EXCEPT !.fetching = Settled(@, i)],
                                 400,
                                 [error |-> "No active session",
                                  retryInput |-> << >>]))
           \/ /\ PostRespondBegin(cookie, fetching[i].input, limit + 1)
              /\ fetching' = [fetching EXCEPT ![i].stage = "awaiting"]
              /\ UNCHANGED << gameState, input, isLoading, error >>
        /\ UNCHANGED cookie

\* the state this part of the specification describes, no code of src/
\* produces it: on a failed upstream call the request is answered 503 with
\* the player's input as retryInput, and the session is left as it is
PostRespondUnavailable(sessionId, outcome) ==
    /\ inflight[sessionId] > 0
    /\ inflight' = [inflight EXCEPT ![sessionId] = @ - 1]
    /\ \E prompt \in BagToSet(pending[sessionId]) :
           pending' = [pending EXCEPT ![sessionId] = @ (-) SetToBag({prompt})]
    /\ upstream' = UpstreamResult(outcome)
    /\ response' = [status |-> 503, error |-> "AI service unavailable"]
    /\ UNCHANGED sessions

\* the server answers a respond request of the page
SubmitResolves(variant, outcomes) ==
    \E i \in DOMAIN fetching, outcome \in outcomes :
        /\ fetching[i].action = "respond"
        /\ fetching[i].stage = "awaiting"
        /\ IF variant = "retry" /\ UpstreamResult(outcome) \in UpstreamFailures
           THEN /\ PostRespondUnavailable(cookie, outcome)
                /\ Render(Rejected(variant,
                                   [Page EXCEPT !.fetching = Settled(@, i)],
                                   503,
                                   [error |-> "AI service unavailable",
                                    retryInput |-> fetching[i].input]))
           ELSE \E llmOutput \in getLLMResponse(outcome) :
                    /\ PostRespondEnd(cookie, outcome, llmOutput)
                    /\ Render(handleSubmitResolved(
                                  [Page EXCEPT !.fetching = Settled(@, i)],
                                  sessions'[cookie]))
        /\ UNCHANGED cookie

\* fetch rejects for a respond request; the server finishes what it began
SubmitFetchFails ==
    \E i \in DOMAIN fetching :
        /\ fetching[i].action = "respond"
        /\ Render(handleSubmitFailed([Page EXCEPT !.fetching = Settled(@, i)]))
        /\ UNCHANGED << server, cookie >>

\* the server finishes a respond request whose page is gone or no longer
\* awaits it
OrphanRespondEnd(variant, outcomes) ==
    \E sessionId \in SessionIds, outcome \in outcomes :
        /\ inflight[sessionId] >
               (IF sessionId = cookie THEN Awaiting(fetching) ELSE 0)
        /\ IF variant = "retry" /\ UpstreamResult(outcome) \in UpstreamFailures
           THEN PostRespondUnavailable(sessionId, outcome)
           ELSE \E llmOutput \in getLLMResponse(outcome) :
                    PostRespondEnd(sessionId, outcome, llmOutput)
        /\ UNCHANGED page

\* one page in one browser, with the server behind it
PageSteps(variant, outcomes, limit, games) ==
    \/ PageLoad
    \/ StartGameEnd(games)
    \/ StartGameFail
    \/ \E text \in PageInputs : TypeInput(text)
    \/ PressEnter(limit)
    \/ ClickSubmit(limit)
    \/ SubmitArrives(variant, limit)
    \/ SubmitResolves(variant, outcomes)
    \/ SubmitFetchFails
    \/ OrphanRespondEnd(variant, outcomes)

\* the browser opens the page
InitPage ==
    /\ sessions = [id \in {} |-> initialState]
    /\ inflight = [id \in SessionIds |-> 0]
    /\ pending = [id \in SessionIds |-> EmptyBag]
    /\ upstream = "idle"
    /\ response = [status |-> 0, error |-> ""]
    /\ cookie = NoCookie
    /\ gameState = << >>
    /\ input = << >>
    /\ isLoading = TRUE
    /\ error = << >>
    /\ fetching = << Fetch("new", << >>, "sent") >>

\* the page of src/app/page.tsx
NextPage ==
    PageSteps("page", [kind : {"content"}, content : PageContents],
              MaxPageResponds, MaxSessions)

SpecPage == InitPage /\ [][NextPage]_vars

\* a fetch of the page rejects; this can happen exactly as long as a fetch
\* of the page has not settled
FetchRejects == StartGameFail \/ SubmitFetchFails

\* the page, with no fetch pending for ever: a fetch that is not answered
\* rejects in the end
SpecPageFair == SpecPage /\ WF_vars(FetchRejects)

\* the later variant of the page, with a server that reports a failed
\* upstream call as 503
NextRetry ==
    PageSteps("retry", UpstreamOutcomes({MoveDarkCave}) \ 
                           [kind : {"nokey", "notok", "nochoices"}, content : {<< >>}],
              MaxPageResponds, MaxSessions)

SpecRetry == InitPage /\ [][NextRetry]_vars

----------------------------------------------------------------------------
(* Properties                                                               *)

Last(seq) == seq[Len(seq)]

\* the values the properties expect

\* "dark cave"
DarkCave ==
    << "d", "a", "r", "k", " ", "c", "a", "v", "e" >>

\* "iron key"
IronKey ==
    << "i", "r", "o", "n", " ", "k", "e", "y" >>

\* "map"
Map ==
    << "m", "a", "p" >>

\* "forest"
Forest ==
    << "f", "o", "r", "e", "s", "t" >>

\* "sword"
Sword ==
    << "s", "w", "o", "r", "d" >>

\* a text in normalized form: no upper-case letter, no white space at
\* either end
IsNormalized(s) ==
    /\ \A k \in DOMAIN s : \A u \in DOMAIN UpperChars : s[k] # UpperChars[u]
    /\ s # << >> => s[1] \notin WhiteSpace /\ Last(s) \notin WhiteSpace

NoDuplicates(seq) ==
    \A i, j \in DOMAIN seq : seq[i] = seq[j] => i = j

Elements(seq) == { seq[i] : i \in DOMAIN seq }

\* a respond request of the session completes in the step
RespondCompletes(id) == inflight'[id] < inflight[id]

\* C1: recentEvents never holds more than five events, and each reply is
\* one push that evicts first-in first-out: the new list ends with the
\* reply just recorded in the story and, before it, holds the old list
\* without its oldest event when the old list was full, whole otherwise;
\* a step that records no reply leaves the list alone.
C1_RecentEventsFifo ==
    /\ [](\A id \in DOMAIN sessions :
              Len(sessions[id].recentEvents) <= RecentEventsCap)
    /\ [][\A id \in DOMAIN sessions :
              LET old == sessions[id].recentEvents
                  new == sessions'[id].recentEvents
                  kept == Len(new) - 1
              IN  IF sessions'[id].story = sessions[id].story
                  THEN new = old
                  ELSE /\ Len(new) = IF Len(old) < RecentEventsCap
                                     THEN Len(old) + 1 ELSE RecentEventsCap
                       /\ Last(new) = Last(sessions'[id].story)
                       /\ \A k \in 1..kept :
                              new[k] = old[Len(old) - kept + k]]_vars

\* six events went into one list: the seed line is evicted and the five
\* replies are held in arrival order
C1_Witness ==
    \E id \in DOMAIN sessions :
        /\ Len(sessions[id].story) = RecentEventsCap + 1
        /\ sessions[id].recentEvents =
               SubSeq(sessions[id].story, 2, RecentEventsCap + 1)
        /\ sessions[id].recentEvents[1] # sessions[id].recentEvents[2]

\* C2: in every session the inventory has no duplicate entry and every
\* entry is lower case without white space at either end.
C2_InventoryNormalizedUnique ==
    \A id \in DOMAIN sessions :
        /\ NoDuplicates(sessions[id].inventory)
        /\ \A k \in DOMAIN sessions[id].inventory :
               IsNormalized(sessions[id].inventory[k])

\* a reply naming "Iron Key" and " iron key " was processed and left the
\* one entry "iron key"
C2_Witness ==
    \E id \in DOMAIN sessions :
        /\ Last(sessions[id].story) = FindTwice
        /\ sessions[id].inventory = << IronKey >>

\* C3: a reply only adds to the inventory: the old inventory is kept as a
\* prefix, and what follows it is, once each, exactly the items the reply
\* names that the old inventory does not hold; a step that completes no
\* respond request of the session leaves its inventory alone.
C3_InventoryAdditive ==
    [][\A id \in DOMAIN sessions :
           LET old == sessions[id].inventory
               new == sessions'[id].inventory
               added == SubSeq(new, Len(old) + 1, Len(new))
               named == { normalizeItem(g) :
                              g \in Elements(itemGroups(trim(Last(sessions'[id].story)))) }
           IN  IF RespondCompletes(id)
               THEN /\ Len(new) >= Len(old)
                    /\ SubSeq(new, 1, Len(old)) = old
                    /\ NoDuplicates(added)
                    /\ Elements(added) = named \ Elements(old)
               ELSE new = old]_vars

\* "iron key" was held when a reply naming "Iron Key" and "Map" arrived:
\* only "map" was appended
C3_Witness ==
    \E id \in DOMAIN sessions :
        /\ sessions[id].story = << SeedLine, FindTwice, FindKeyMap >>
        /\ sessions[id].inventory = << IronKey, Map >>

\* C4: in every session the location is lower case, without white space
\* at either end, and not empty.
C4_LocationNeverEmpty ==
    \A id \in DOMAIN sessions :
        /\ IsNormalized(sessions[id].location)
        /\ sessions[id].location # << >>

\* C5: a respond request whose upstream call fails (no API key, a throw, a
\* status that is not OK, an empty reply) leaves the state of its session
\* unchanged.
C5_UpstreamFailureKeepsState ==
    [][\A id \in DOMAIN sessions :
           RespondCompletes(id) /\ upstream' \in UpstreamFailures
               => sessions'[id] = sessions[id]]_vars

\* C6: after the reply {"location": "Forest", "inventory": ["Sword"]} the
\* location is "forest" and the inventory is exactly <<"sword">>.
C6_StructuredReplyApplied ==
    \A id \in DOMAIN sessions :
        Last(sessions[id].story) = JsonForestSword
            => /\ sessions[id].location = Forest
               /\ sessions[id].inventory = << Sword >>

\* C7: a reply whose only marker is *Dark Cave* sets the location to
\* "dark cave", leaves the inventory unchanged and is appended to
\* recentEvents and to the story.
C7_BareLocationMarker ==
    [][\A id \in DOMAIN sessions :
           sessions'[id].story = Append(sessions[id].story, EnterDarkCave)
               => /\ sessions'[id].location = DarkCave
                  /\ sessions'[id].inventory = sessions[id].inventory
                  /\ Last(sessions'[id].recentEvents) = EnterDarkCave]_vars

\* C8: the reply "Some text {iron key} more text" adds "iron key" to the
\* inventory and leaves the location unchanged.
C8_BareItemMarker ==
    [][\A id \in DOMAIN sessions :
           sessions'[id].story = Append(sessions[id].story, SomeIronKey)
               => /\ includes(sessions'[id].inventory, IronKey)
                  /\ sessions'[id].location = sessions[id].location]_vars

\* C9: the story of a session is append-only: a step that completes a
\* respond request of the session appends exactly one entry, the reply
\* text that the step also records as the newest event, and keeps every
\* entry before it; every other step leaves the story as it is.
C9_StoryAppendOnly ==
    [][\A id \in DOMAIN sessions :
           LET old == sessions[id].story
               new == sessions'[id].story
           IN  IF RespondCompletes(id)
               THEN /\ Len(new) = Len(old) + 1
                    /\ SubSeq(new, 1, Len(old)) = old
                    /\ Last(new) \in ReplyTexts
                    /\ trim(Last(new)) = Last(sessions'[id].recentEvents)
               ELSE new = old]_vars

\* three respond requests of one session completed, none is in flight
C9_Witness ==
    \E id \in DOMAIN sessions :
        /\ Len(sessions[id].story) = 4
        /\ sessions[id].story[1] = SeedLine
        /\ inflight[id] = 0

\* C10: a step changes the state of at most the session whose respond
\* request it completes: every other session, and every session when the
\* step completes no respond request, keeps all four fields.
C10_SessionsIndependent ==
    [][\A b \in DOMAIN sessions :
           sessions'[b] # sessions[b] => RespondCompletes(b)]_vars

\* two sessions hold different replies: the later of the two was recorded
\* while the other session held its own
C10_Witness ==
    \E a, b \in DOMAIN sessions :
        /\ a # b
        /\ Len(sessions[a].story) = 2
        /\ Len(sessions[b].story) = 2
        /\ sessions[a].story # sessions[b].story
        /\ sessions[a].inventory # sessions[b].inventory

\* the replies applied one after the other
RECURSIVE Replay(_, _)
Replay(state, replies) ==
    IF replies = << >> THEN state
    ELSE Replay(applyReply(state, Head(replies)), Tail(replies))

\* C12: however the respond requests of a session overlap, its state is
\* the initial state with the replies applied whole, one after the other,
\* in the order they arrived (the order of the story): no part of a reply
\* is lost or mixed with another.
C12_RepliesAppliedWhole ==
    \A id \in DOMAIN sessions :
        sessions[id] = Replay(initialState, Tail(sessions[id].story))

\* a reply that changed the inventory was applied while another request of
\* the session, begun before it, was still awaiting the upstream call
C12_Witness ==
    \E id \in DOMAIN sessions :
        \E prompt \in BagToSet(pending[id]) :
            /\ Len(sessions[id].story) = 2
            /\ prompt.recentEvents = << SeedLine >>
            /\ prompt.inventory # sessions[id].inventory

\* "Hi"
NarrativeHi ==
    << "H", "i" >>

\* "inn"
Inn ==
    << "i", "n", "n" >>

\* C14: a reply the session has processed before, so that every item it
\* names is held, leaves the inventory as it is, entry for entry, and is
\* still enqueued as a new event.
C14_RepeatedReplyIdempotent ==
    [][\A id \in DOMAIN sessions :
           LET old == sessions[id]
               new == sessions'[id]
               reply == Last(new.story)
           IN  RespondCompletes(id) /\ reply \in Elements(Tail(old.story))
                   => /\ new.inventory = old.inventory
                      /\ Len(new.recentEvents) =
                             IF Len(old.recentEvents) < RecentEventsCap
                             THEN Len(old.recentEvents) + 1 ELSE RecentEventsCap
                      /\ Last(new.recentEvents) = trim(reply)]_vars

\* the reply naming "Iron Key" and "Map" was processed twice
C14_Witness ==
    \E id \in DOMAIN sessions :
        /\ sessions[id].story = << SeedLine, FindKeyMap, FindKeyMap >>
        /\ sessions[id].inventory = << IronKey, Map >>
        /\ sessions[id].recentEvents = << SeedLine, FindKeyMap, FindKeyMap >>

\* C16: a step that adds a session adds exactly one, under an id no
\* session had, with location "village", an empty inventory and the seed
\* line as the only event and the only story line, and leaves every
\* session that existed as it was.
C16_NewGameInitial ==
    [][DOMAIN sessions' # DOMAIN sessions
           => \E id \in DOMAIN sessions' \ DOMAIN sessions :
                  /\ DOMAIN sessions' = DOMAIN sessions \cup {id}
                  /\ sessions'[id] = [ location     |-> Village,
                                       inventory    |-> << >>,
                                       recentEvents |-> << SeedLine >>,
                                       story        |-> << SeedLine >> ]
                  /\ \A b \in DOMAIN sessions : sessions'[b] = sessions[b]]_vars

\* a session in the initial state beside a session that holds a reply
C16_Witness ==
    \E a, b \in DOMAIN sessions :
        /\ Len(sessions[a].story) = 2
        /\ sessions[b].story = << SeedLine >>
        /\ sessions[b].recentEvents = << SeedLine >>
        /\ sessions[b].location = Village
        /\ inflight[b] = 0

\* C17: a reply in which neither pattern matches leaves location and
\* inventory unchanged, is answered with status 200, and is recorded as one
\* new event and one new story line.
C17_EmptyExtraction ==
    [][\A id \in DOMAIN sessions :
           LET old == sessions[id]
               new == sessions'[id]
               reply == Last(new.story)
           IN  /\ RespondCompletes(id)
               /\ LocationMatchOf[trim(reply)] = NoMatch
               /\ ItemGroupsOf[trim(reply)] = << >>
               => /\ new.location = old.location
                  /\ new.inventory = old.inventory
                  /\ new.story = Append(old.story, reply)
                  /\ Len(new.recentEvents) =
                         IF Len(old.recentEvents) < RecentEventsCap
                         THEN Len(old.recentEvents) + 1 ELSE RecentEventsCap
                  /\ Last(new.recentEvents) = trim(reply)
                  /\ response'.status = 200]_vars

\* a reply without any marker was recorded
C17_Witness ==
    \E id \in DOMAIN sessions :
        /\ sessions[id].story = << SeedLine, Fallback3 >>
        /\ sessions[id].recentEvents = << SeedLine, Fallback3 >>
        /\ sessions[id].location = Village
        /\ sessions[id].inventory = << >>

\* C18: after the reply {"narrative": "Hi"} the last story line is the
\* narrative "Hi", not the JSON text.
C18_NarrativeReplacesJson ==
    \A id \in DOMAIN sessions :
        Last(sessions[id].recentEvents) = JsonNarrative
            \/ Last(sessions[id].story) = JsonNarrative
            => Last(sessions[id].story) = NarrativeHi

\* C19: a step that answers 400 answers "No active session" or, with a
\* session in the table, "Invalid action"; it creates no session, changes
\* no session and starts no upstream call.
C19_RejectedRequestsChangeNothing ==
    [][response' # response /\ response'.status = 400
           => /\ UNCHANGED << sessions, inflight, pending, upstream >>
              /\ response'.error \in {"No active session", "Invalid action"}
              /\ response'.error = "Invalid action"
                     => DOMAIN sessions # {}]_vars

\* "Invalid action" was answered for a session with a request in flight
C19_Witness ==
    /\ response = [status |-> 400, error |-> "Invalid action"]
    /\ \E id \in DOMAIN sessions : inflight[id] > 0

\* C20: after the reply "You go to *Inn*. You go to *Bog*." the location
\* is "inn", the first marker.
C20_FirstLocationMarker ==
    \A id \in DOMAIN sessions :
        Last(sessions[id].story) = TwoMoves => sessions[id].location = Inn

\* the reply with two markers was processed
C20_Witness ==
    \E id \in DOMAIN sessions :
        /\ Last(sessions[id].recentEvents) = TwoMoves
        /\ sessions[id].location = Inn

\* the respond requests of the page that have not settled
RespondFetches == Sent(fetching) + Awaiting(fetching)

\* C11: the page has at most one respond request pending at a time: a
\* pending request means isLoading, while isLoading no Enter, submit or
\* click adds a request, and no step, a single Enter included, adds more
\* than one.
C11_OneSubmissionPending ==
    [][/\ RespondFetches <= 1
       /\ RespondFetches' <= 1
       /\ RespondFetches > 0 => isLoading
       /\ isLoading => RespondFetches' <= RespondFetches]_vars

\* a submission of the page is awaiting the upstream reply
C11_Witness ==
    /\ isLoading
    /\ Awaiting(fetching) = 1
    /\ gameState # << >>
    /\ Last(gameState[1].story) = PlayerLine(Look)

\* C13: when the page is loaded with the cookie of a session that has
\* played, the cookie stays and the page shows that session's state.
C13_SessionSurvivesReload ==
    [][/\ cookie \in DOMAIN sessions
       /\ Len(sessions[cookie].story) > 1
       /\ gameState = << >>
       /\ gameState' # << >>
       => /\ cookie' = cookie
          /\ gameState'[1] = sessions[cookie]]_vars

\* C15: when a submission is answered 503 with retryInput, the input
\* field holds the player's input after handleSubmit has finished.
C15_RetryKeepsInput ==
    [][/\ \E id \in SessionIds : RespondCompletes(id)
       /\ response'.status = 503
       /\ isLoading
       /\ ~isLoading'
       => /\ input' = input
          /\ input' # << >>]_vars

\* trim of every line a story of the server can hold
TrimmedLine == [line \in ReplyTexts \cup {SeedLine} |-> trim(line)]

\* the trimmed texts of the last n lines of a story
TrimmedTail(story, n) ==
    [k \in 1..n |-> TrimmedLine[story[Len(story) - n + k]]]

\* C23: whenever a step creates or changes a session, and so in every
\* state of a session, recentEvents is the trimmed text of the last
\* min(5, Len(story)) lines of story, in the same order, and every
\* completed respond request adds one line to story.
C23_RecentEventsMirrorStory ==
    [][\A id \in DOMAIN sessions' :
           LET new == sessions'[id]
               n == IF Len(new.story) < RecentEventsCap
                    THEN Len(new.story) ELSE RecentEventsCap
           IN  /\ id \in DOMAIN sessions /\ RespondCompletes(id)
                      => Len(new.story) = Len(sessions[id].story) + 1
               /\ id \notin DOMAIN sessions \/ new # sessions[id]
                      => new.recentEvents = TrimmedTail(new.story, n)]_vars

\* a session after five respond requests: six story lines, and the events
\* are the last five of them
C23_Witness ==
    \E id \in DOMAIN sessions :
        /\ Len(sessions[id].story) = RecentEventsCap + 1
        /\ Len(sessions[id].recentEvents) = RecentEventsCap
        /\ sessions[id].recentEvents[1] = trim(sessions[id].story[2])
        /\ inflight[id] = 0

\* C21: when the successful response of a submission is applied, the
\* "> input" line handleSubmit added is still a line of the story the page
\* shows.
C21_PlayerLineKept ==
    [][\A i \in DOMAIN fetching :
           /\ fetching[i].action = "respond"
           /\ fetching[i].stage = "awaiting"
           /\ fetching' = Settled(fetching, i)
           /\ response'.status = 200
           /\ gameState # << >>
           /\ PlayerLine(fetching[i].input) \in Elements(gameState[1].story)
           /\ isLoading /\ ~isLoading'
           /\ error' = << >>
           => /\ gameState' # << >>
              /\ PlayerLine(fetching[i].input) \in Elements(gameState'[1].story)]_vars

\* C22: isLoading is true only while a fetch of the page has not settled,
\* and, every fetch settling in the end, isLoading always becomes false
\* again.
C22_LoadingReleased ==
    /\ [](fetching = << >> => ~isLoading)
    /\ isLoading ~> ~isLoading

\* a submission whose fetch was rejected: the message is shown and the
\* input is enabled again
C22_Witness ==
    /\ ~isLoading
    /\ fetching = << >>
    /\ error = << "Failed to fetch" >>
    /\ gameState # << >>
    /\ Last(gameState[1].story) = PlayerLine(Look)

====
